---- MODULE Spec2Model ----
(***************************************************************************)
(* Model of static/app.js (first revision, lines 1-694): the propose ->    *)
(* evaluate -> confirm/cancel pipeline of the chess front end.  Every      *)
(* event handler is one action; every `await` splits a handler into the    *)
(* part up to the request and the continuation run when the response       *)
(* arrives.  Requests in flight are kept in sequences (oldest first);      *)
(* responses may arrive in any order.                                      *)
(*                                                                         *)
(* A position (what game.fen() serialises) is the sequence of move codes   *)
(* played from the starting position; its length is the ply count that a   *)
(* FEN carries in its side-to-move and full-move fields.                   *)
(*                                                                         *)
(* The page is taken to hold every element the script looks up (the chart  *)
(* canvas, both screens, the buttons): the landing screen carries the      *)
(* difficulty and start buttons, the game screen the board and the Play /  *)
(* Cancel / Reset / Back buttons, and a hidden screen takes no clicks.     *)
(* The chess rules are those of chess.js restricted to the e- and d-pawn   *)
(* moves; the three services behind /api answer as their interface says:   *)
(* the evaluation is a pure function of its request, the commit service    *)
(* applies a legal move code to the position sent, the engine names a      *)
(* legal move of the position sent, and any request may fail.              *)
(*                                                                         *)
(* Variables marked "history" are not program state: they record what was  *)
(* sent and which step ran last, so that properties can speak about it.    *)
(*                                                                         *)
(* Spec is the whole front end.  SpecBand drives the band classifier on    *)
(* its own: addEvalPoint is called with every score of -MaxCp .. MaxCp.    *)
(***************************************************************************)
EXTENDS Integers, Sequences, FiniteSets, TLC

VARIABLES
    game,            \* authoritative position (chess.js object `game`)
    pending,         \* Null or <<proposal>>; history: fen, the position proposed on
    gameMode,        \* "null" | "computer" | "human-local"
    difficulty,      \* "easy" | "medium" | "hard"
    screen,          \* "landing" | "game" (which screen is not hidden)
    moveCount,       \* ply counter of the chart
    chart,           \* evalChart.data: sequence of [label, y]; history: cp, the score added
    squareMistakes,  \* square -> count, only squares with a count
    evalCache,       \* key -> evalRes, only inserted keys
    moveHistory,     \* sequence of [color, san, captured]
    evalInFlight,    \* suspended onDrop calls awaiting /api/eval-move
    commitInFlight,  \* suspended confirm handlers awaiting /api/make-move: the request
                     \* {fen, uci}; history: the proposal confirmed, and whether it is
                     \* still the PendingProposal (pending not assigned since)
    engineInFlight,  \* suspended playEngineMoveIfNeeded calls awaiting /api/best-move
    evalSent,        \* history: key -> number of /api/eval-move requests issued
    diffChanges,     \* history: how often the difficulty was changed
    lastOp           \* history: the step taken last, and the ledger length before it

vars == <<game, pending, gameMode, difficulty, screen, moveCount, chart,
          squareMistakes, evalCache, moveHistory, evalInFlight, commitInFlight,
          engineInFlight, evalSent, diffChanges, lastOp>>

(* ------------------------------ bounds --------------------------------- *)

\* the game is over (game.game_over()) once this many plies are on the board
MaxPly == 2
\* requests of one kind that may be outstanding together
MaxInFlight == 2
\* /api/eval-move requests issued in one session
MaxEvalReq == 2
\* records the Move Ledger may hold
MaxLedger == 3
\* changes of the difficulty in one session
MaxDiffChanges == 1
\* scores fed to the classifier range over -MaxCp .. MaxCp centipawns
MaxCp == 160
\* points the Trend Series holds when addEvalPoint is driven on its own
MaxPoints == 1

(* --------------------------- rules engine ------------------------------ *)

Null == <<>>

StartPos == <<>>

RemoveAt(s, i) == SubSeq(s, 1, i - 1) \o SubSeq(s, i + 1, Len(s))

Played(pos, u) == \E i \in 1..Len(pos) : pos[i] = u

turn(pos) == IF Len(pos) % 2 = 0 THEN "w" ELSE "b"

Sources == {"e2", "d2", "d7", "e4"}

Targets == {"e4", "d4", "d5"}

\* colour of the pawn standing on a drag source, "-" when the square is empty
PieceColor(pos, sq) ==
    CASE sq = "e2" -> IF Played(pos, "e2e4") THEN "-" ELSE "w"
      [] sq = "d2" -> IF Played(pos, "d2d4") THEN "-" ELSE "w"
      [] sq = "d7" -> IF Played(pos, "d7d5") THEN "-" ELSE "b"
      [] sq = "e4" -> IF Played(pos, "e2e4") /\ ~Played(pos, "e4d5") THEN "w" ELSE "-"
      [] OTHER -> "-"

game_over(pos) == Len(pos) >= MaxPly

\* the pawn moves of the model: advances of the e and d pawns and exd5
PawnMove(pos, from, to) ==
    \/ from = "e2" /\ to = "e4"
    \/ from = "d2" /\ to = "d4"
    \/ from = "d7" /\ to = "d5"
    \/ from = "e4" /\ to = "d5" /\ Played(pos, "d7d5")

Legal(pos, from, to) ==
    /\ ~game_over(pos)
    /\ PieceColor(pos, from) = turn(pos)
    /\ PawnMove(pos, from, to)

SanOf(from, to) ==
    CASE from = "e4" /\ to = "d5" -> "exd5"
      [] OTHER -> to

CapturedOf(from, to) ==
    IF from = "e4" /\ to = "d5" THEN "p" ELSE "-"

\* promotion letter chosen by onDrop: a pawn reaching its last rank queens
Promotion(pos, from, to) ==
    LET lastRank == IF PieceColor(pos, from) = "w" THEN {"e8", "d8"} ELSE {"e1", "d1"}
    IN  IF PieceColor(pos, from) # "-" /\ to \in lastRank THEN "q" ELSE ""

\* the move object game.move() returns for a legal move
MoveObject(pos, from, to) ==
    [from |-> from, to |-> to, promotion |-> Promotion(pos, from, to),
     san |-> SanOf(from, to), captured |-> CapturedOf(from, to), color |-> turn(pos)]

UciOf(move) == move.from \o move.to \o move.promotion

GameMove(pos, move) == Append(pos, UciOf(move))

\* a trial move that is never taken back
GameUndoSkipped(pos) == pos

GameUndo(pos) == SubSeq(pos, 1, Len(pos) - 1)

LegalMoves(pos) ==
    {MoveObject(pos, f, t) : <<f, t>> \in {ft \in Sources \X Targets : Legal(pos, ft[1], ft[2])}}


\* game.move(bestSan): the legal move of the position with that notation
MovesWithSan(pos, san) == {m \in LegalMoves(pos) : m.san = san}

(* ------------------------------ helpers -------------------------------- *)

EmptyMap == [x \in {} |-> 0]

Put(f, k, v) == [x \in DOMAIN f \cup {k} |-> IF x = k THEN v ELSE f[x]]

\* a classifier whose comparisons are inclusive
evalBandInfoInclusive(cp) ==
    IF cp * 10 >= 15 * 100 THEN 2
    ELSE IF cp * 10 >= 5 * 100 THEN 1
    ELSE IF cp * 10 >= (-5) * 100 THEN 0
    ELSE IF cp * 10 >= (-15) * 100 THEN -1
    ELSE -2

\* a classifier whose two upper bands are exchanged
evalBandInfoSwapped(cp) ==
    IF cp * 10 > 15 * 100 THEN 1
    ELSE IF cp * 10 > 5 * 100 THEN 2
    ELSE IF cp * 10 > (-5) * 100 THEN 0
    ELSE IF cp * 10 > (-15) * 100 THEN -1
    ELSE -2

\* evalBandInfo(cp).index: pawns = cp / 100.0 compared with 1.5, 0.5, -0.5, -1.5
evalBandInfo(cp) ==
    IF cp * 10 > 15 * 100 THEN 2
    ELSE IF cp * 10 > 5 * 100 THEN 1
    ELSE IF cp * 10 > (-5) * 100 THEN 0
    ELSE IF cp * 10 > (-15) * 100 THEN -1
    ELSE -2

evalDepth(d) ==
    CASE d = "easy" -> 8
      [] d = "medium" -> 12
      [] d = "hard" -> 18
      [] OTHER -> 12

bestMoveDepth(d) ==
    CASE d = "easy" -> 10
      [] d = "medium" -> 16
      [] d = "hard" -> 22
      [] OTHER -> 18

Difficulties == {"easy", "medium", "hard"}

badBuckets == {"Cool", "Cold", "Freezing"}

\* /api/eval-move: a pure function of the request {fen, uci, depth}
EvalService(fen, uci, depth) ==
    CASE uci = "e2e4" -> [userCp |-> 30, bucket |-> "Hot"]
      [] uci = "d2d4" -> [userCp |-> -200, bucket |-> "Cold"]
      [] uci = "d7d5" -> [userCp |-> 120, bucket |-> "Warm"]
      [] OTHER -> [userCp |-> -160, bucket |-> "Freezing"]

CacheKey(pos, uci, depth) == <<pos, uci, depth>>

Op(name) == [op |-> name, preLen |-> 0]

\* a step that clears the ledger records how long it was
ClearOp(name) == [op |-> name, preLen |-> Len(moveHistory)]

\* history: a later gesture has started while these calls are suspended
Supersede(flight) ==
    [i \in DOMAIN flight |-> [flight[i] EXCEPT !.superseded = TRUE]]

\* history: cancel was clicked or a confirm completed while these calls are suspended
Invalidate(flight) ==
    [i \in DOMAIN flight |-> [flight[i] EXCEPT !.invalidated = TRUE]]

\* updateHeatmap(): maxCount = Math.max(...counts)
maxCount(counts) ==
    CHOOSE c \in {counts[sq] : sq \in DOMAIN counts} :
        \A sq \in DOMAIN counts : counts[sq] <= c

\* updateHeatmap(): intensity = count / maxCount, kept as a fraction
intensity(counts, square) ==
    [num |-> counts[square], den |-> maxCount(counts)]

\* history: pending was assigned while these commit requests are outstanding
Outdate(flight) ==
    [i \in DOMAIN flight |-> [flight[i] EXCEPT !.current = FALSE]]

(* -------------------------------- Init --------------------------------- *)

Init ==
    /\ game = StartPos
    /\ pending = Null
    /\ gameMode = "null"
    /\ difficulty = "easy"
    /\ screen = "landing"
    /\ moveCount = 0
    /\ chart = <<>>
    /\ squareMistakes = EmptyMap
    /\ evalCache = EmptyMap
    /\ moveHistory = <<>>
    /\ evalInFlight = <<>>
    /\ commitInFlight = <<>>
    /\ engineInFlight = <<>>
    /\ evalSent = EmptyMap
    /\ diffChanges = 0
    /\ lastOp = [op |-> "load", preLen |-> 0]

(* ------------------------- landing screen ------------------------------ *)

DiffClick(d) ==
    /\ screen = "landing"
    /\ d = difficulty \/ diffChanges < MaxDiffChanges
    /\ difficulty' = d
    /\ diffChanges' = IF d = difficulty THEN diffChanges ELSE diffChanges + 1
    /\ lastOp' = Op("difficulty")
    /\ UNCHANGED <<game, pending, gameMode, screen, moveCount, chart, squareMistakes,
                   evalCache, moveHistory, evalInFlight, commitInFlight,
                   engineInFlight, evalSent>>

\* game.reset(), resetEvalChart(), resetHeatmap(), moveHistory = []
StartGame(mode) ==
    /\ screen = "landing"
    /\ gameMode' = mode
    /\ game' = StartPos
    /\ moveCount' = 0
    /\ chart' = <<>>
    /\ squareMistakes' = EmptyMap
    /\ moveHistory' = <<>>
    /\ screen' = "game"
    /\ lastOp' = ClearOp("start")
    /\ UNCHANGED <<pending, difficulty, evalCache, evalInFlight, commitInFlight,
                   engineInFlight, evalSent, diffChanges>>

StartVsComputer == StartGame("computer")

StartHumanLocal == StartGame("human-local")

showLandingScreen ==
    /\ screen' = "landing"
    /\ game' = StartPos
    /\ moveCount' = 0
    /\ chart' = <<>>
    /\ squareMistakes' = EmptyMap
    /\ moveHistory' = <<>>

BackClick ==
    /\ screen = "game"
    /\ showLandingScreen
    /\ lastOp' = ClearOp("back")
    /\ UNCHANGED <<pending, gameMode, difficulty, evalCache, evalInFlight,
                   commitInFlight, engineInFlight, evalSent, diffChanges>>

\* a reset that restores the board only
ResetBoardOnly ==
    /\ screen = "game"
    /\ game' = StartPos
    /\ lastOp' = ClearOp("reset")
    /\ UNCHANGED <<pending, gameMode, difficulty, screen, moveCount, chart,
                   squareMistakes, evalCache, moveHistory, evalInFlight,
                   commitInFlight, engineInFlight, evalSent, diffChanges>>

\* a reset that also empties the evaluation cache
ResetClearsCache ==
    /\ screen = "game"
    /\ game' = StartPos
    /\ moveCount' = 0
    /\ chart' = <<>>
    /\ squareMistakes' = EmptyMap
    /\ moveHistory' = <<>>
    /\ evalCache' = EmptyMap
    /\ lastOp' = ClearOp("reset")
    /\ UNCHANGED <<pending, gameMode, difficulty, screen, evalInFlight,
                   commitInFlight, engineInFlight, evalSent, diffChanges>>

ResetClick ==
    /\ screen = "game"
    /\ game' = StartPos
    /\ moveCount' = 0
    /\ chart' = <<>>
    /\ squareMistakes' = EmptyMap
    /\ moveHistory' = <<>>
    /\ lastOp' = ClearOp("reset")
    /\ UNCHANGED <<pending, gameMode, difficulty, screen, evalCache, evalInFlight,
                   commitInFlight, engineInFlight, evalSent, diffChanges>>

\* a cancel that also takes the last move on the board back
CancelTakesBack ==
    /\ screen = "game"
    /\ pending' = Null
    /\ game' = GameUndo(game)
    /\ evalInFlight' = Invalidate(evalInFlight)
    /\ commitInFlight' = Outdate(commitInFlight)
    /\ lastOp' = Op("cancel")
    /\ UNCHANGED <<gameMode, difficulty, screen, moveCount, chart,
                   squareMistakes, evalCache, moveHistory,
                   engineInFlight, evalSent, diffChanges>>

CancelClick ==
    /\ screen = "game"
    /\ pending' = Null
    /\ evalInFlight' = Invalidate(evalInFlight)
    /\ commitInFlight' = Outdate(commitInFlight)
    /\ lastOp' = Op("cancel")
    /\ UNCHANGED <<game, gameMode, difficulty, screen, moveCount, chart,
                   squareMistakes, evalCache, moveHistory,
                   engineInFlight, evalSent, diffChanges>>


(* ------------------------------ propose -------------------------------- *)

onDragStart(source) ==
    /\ ~game_over(game)
    /\ PieceColor(game, source) = turn(game)

\* game.move() refuses the move: message shown, piece snaps back
OnDropIllegal(source, target) ==
    /\ screen = "game"
    /\ onDragStart(source)
    /\ ~Legal(game, source, target)
    /\ lastOp' = Op("dropIllegal")
    /\ UNCHANGED <<game, pending, gameMode, difficulty, screen, moveCount, chart,
                   squareMistakes, evalCache, moveHistory, evalInFlight,
                   commitInFlight, engineInFlight, evalSent, diffChanges>>

\* a proposal built from the trial move and an evaluation; history: fen, the
\* position the move was tried on and evaluated for
Proposal(move, evalRes, pos) ==
    [from |-> move.from, to |-> move.to, uci |-> UciOf(move), eval |-> evalRes,
     san |-> move.san, color |-> move.color, captured |-> move.captured,
     fen |-> pos]

\* legal move, evalCache.has(key): the proposal is stored without a request
OnDropHit(source, target) ==
    /\ screen = "game"
    /\ onDragStart(source)
    /\ Legal(game, source, target)
    /\ LET move == MoveObject(game, source, target)
           key == CacheKey(GameUndo(GameMove(game, move)), UciOf(move), evalDepth(difficulty))
       IN  /\ key \in DOMAIN evalCache
           /\ game' = GameUndo(GameMove(game, move))
           /\ pending' = <<Proposal(move, evalCache[key], key[1])>>
    /\ evalInFlight' = Supersede(evalInFlight)
    /\ commitInFlight' = Outdate(commitInFlight)
    /\ lastOp' = Op("dropHit")
    /\ UNCHANGED <<gameMode, difficulty, screen, moveCount, chart, squareMistakes,
                   evalCache, moveHistory, engineInFlight, evalSent, diffChanges>>

RequestsSent == LET Sum[S \in SUBSET DOMAIN evalSent] ==
                        IF S = {} THEN 0
                        ELSE LET k == CHOOSE x \in S : TRUE
                             IN  evalSent[k] + Sum[S \ {k}]
                IN  Sum[DOMAIN evalSent]

\* legal move, cache miss: POST /api/eval-move and suspend
OnDropMiss(source, target) ==
    /\ screen = "game"
    /\ onDragStart(source)
    /\ Legal(game, source, target)
    /\ Len(evalInFlight) < MaxInFlight
    /\ RequestsSent < MaxEvalReq
    /\ LET move == MoveObject(game, source, target)
           key == CacheKey(GameUndo(GameMove(game, move)), UciOf(move), evalDepth(difficulty))
       IN  /\ key \notin DOMAIN evalCache
           /\ game' = GameUndo(GameMove(game, move))
           /\ evalInFlight' = Append(Supersede(evalInFlight),
                                     [move |-> move, key |-> key,
                                      superseded |-> FALSE, invalidated |-> FALSE])
           /\ evalSent' = Put(evalSent, key,
                              IF key \in DOMAIN evalSent THEN evalSent[key] + 1 ELSE 1)
    /\ lastOp' = Op("dropMiss")
    /\ UNCHANGED <<pending, gameMode, difficulty, screen, moveCount, chart,
                   squareMistakes, evalCache, moveHistory, commitInFlight,
                   engineInFlight, diffChanges>>

OnDrop(source, target) ==
    \/ OnDropIllegal(source, target)
    \/ OnDropHit(source, target)
    \/ OnDropMiss(source, target)

\* the response arrives: evalCache.set(key, evalRes); pending = {...}
EvalResponseOk(i) ==
    /\ i \in DOMAIN evalInFlight
    /\ LET k == evalInFlight[i]
           evalRes == EvalService(k.key[1], k.key[2], k.key[3])
       IN  /\ evalCache' = Put(evalCache, k.key, evalRes)
           /\ pending' = <<Proposal(k.move, evalRes, k.key[1])>>
    /\ evalInFlight' = RemoveAt(evalInFlight, i)
    /\ commitInFlight' = Outdate(commitInFlight)
    /\ lastOp' = Op("evalOk")
    /\ UNCHANGED <<game, gameMode, difficulty, screen, moveCount, chart,
                   squareMistakes, moveHistory, engineInFlight,
                   evalSent, diffChanges>>

\* postJSON throws: caught, alert
EvalResponseFail(i) ==
    /\ i \in DOMAIN evalInFlight
    /\ evalInFlight' = RemoveAt(evalInFlight, i)
    /\ lastOp' = Op("evalFail")
    /\ UNCHANGED <<game, pending, gameMode, difficulty, screen, moveCount, chart,
                   squareMistakes, evalCache, moveHistory, commitInFlight,
                   engineInFlight, evalSent, diffChanges>>


(* ------------------------------ confirm -------------------------------- *)

\* "Play move" with no proposal: if (!pending) return
ConfirmNoop ==
    /\ screen = "game"
    /\ pending = Null
    /\ lastOp' = Op("confirmNoop")
    /\ UNCHANGED <<game, pending, gameMode, difficulty, screen, moveCount, chart,
                   squareMistakes, evalCache, moveHistory, evalInFlight,
                   commitInFlight, engineInFlight, evalSent, diffChanges>>

\* "Play move" with a proposal: POST /api/make-move {fen, uci} and suspend
ConfirmClick ==
    /\ screen = "game"
    /\ pending # Null
    /\ Len(commitInFlight) + Len(engineInFlight) < MaxInFlight
    /\ Len(moveHistory) + Len(commitInFlight) + Len(engineInFlight) < MaxLedger
    /\ commitInFlight' = Append(commitInFlight,
                                [fen |-> game, uci |-> pending[1].uci,
                                 proposal |-> pending[1], current |-> TRUE])
    /\ lastOp' = Op("confirm")
    /\ UNCHANGED <<game, pending, gameMode, difficulty, screen, moveCount, chart,
                   squareMistakes, evalCache, moveHistory, evalInFlight,
                   engineInFlight, evalSent, diffChanges>>

\* the commit service applies a move code it finds legal in the position sent
ServerLegal(pos, uci) == \E m \in LegalMoves(pos) : UciOf(m) = uci

ServerMakeMove(pos, uci) == Append(pos, uci)

\* a point is added without counting the move
addEvalPointUncounted(cp) ==
    /\ moveCount' = moveCount
    /\ chart' = Append(chart, [label |-> moveCount, y |-> evalBandInfo(cp), cp |-> cp])

addEvalPoint(cp) ==
    /\ moveCount' = moveCount + 1
    /\ chart' = Append(chart, [label |-> moveCount + 1, y |-> evalBandInfo(cp), cp |-> cp])

\* the commit response arrives with the new position
CommitResponseOk(i) ==
    /\ i \in DOMAIN commitInFlight
    /\ ServerLegal(commitInFlight[i].fen, commitInFlight[i].uci)
    /\ commitInFlight' = Outdate(RemoveAt(commitInFlight, i))
    /\ evalInFlight' = Invalidate(evalInFlight)
    /\ lastOp' = Op("commitOk")
    /\ IF pending = Null
       THEN \* pending.eval throws a TypeError: caught, pending = null
            /\ pending' = Null
            /\ UNCHANGED <<game, moveCount, chart, squareMistakes, moveHistory,
                           engineInFlight>>
       ELSE LET p == pending[1]
                res == [fen |-> ServerMakeMove(commitInFlight[i].fen, commitInFlight[i].uci)]
            IN  /\ addEvalPoint(p.eval.userCp)
                /\ squareMistakes' =
                       IF p.eval.bucket \in badBuckets
                       THEN Put(squareMistakes, p.to,
                                (IF p.to \in DOMAIN squareMistakes
                                 THEN squareMistakes[p.to] ELSE 0) + 1)
                       ELSE squareMistakes
                /\ moveHistory' = Append(moveHistory,
                                         [color |-> p.color, san |-> p.san,
                                          captured |-> p.captured])
                /\ game' = res.fen
                /\ pending' = Null
                /\ engineInFlight' =
                       IF ~game_over(res.fen) /\ gameMode = "computer"
                       THEN Append(engineInFlight,
                                   [fen |-> res.fen, depth |-> bestMoveDepth(difficulty)])
                       ELSE engineInFlight
    /\ UNCHANGED <<gameMode, difficulty, screen, evalCache, evalSent, diffChanges>>

\* a failure path that keeps the proposal
CommitFailKeepsPending(i) ==
    /\ i \in DOMAIN commitInFlight
    /\ commitInFlight' = Outdate(RemoveAt(commitInFlight, i))
    /\ evalInFlight' = Invalidate(evalInFlight)
    /\ lastOp' = Op("commitFail")
    /\ UNCHANGED <<game, pending, gameMode, difficulty, screen, moveCount, chart,
                   squareMistakes, evalCache, moveHistory, engineInFlight, evalSent,
                   diffChanges>>

\* postJSON throws: caught, pending = null
CommitResponseFail(i) ==
    /\ i \in DOMAIN commitInFlight
    /\ commitInFlight' = Outdate(RemoveAt(commitInFlight, i))
    /\ evalInFlight' = Invalidate(evalInFlight)
    /\ pending' = Null
    /\ lastOp' = Op("commitFail")
    /\ UNCHANGED <<game, gameMode, difficulty, screen, moveCount, chart,
                   squareMistakes, evalCache, moveHistory, engineInFlight, evalSent, diffChanges>>

(* ---------------------------- engine reply ----------------------------- *)

\* /api/best-move answers with a move of the position it was asked about
EngineResponseMove(i, bestSan) ==
    /\ i \in DOMAIN engineInFlight
    /\ bestSan \in {m.san : m \in LegalMoves(engineInFlight[i].fen)}
    /\ engineInFlight' = RemoveAt(engineInFlight, i)
    /\ lastOp' = Op("engineMove")
    /\ IF MovesWithSan(game, bestSan) = {}
       THEN \* temp.move(bestSan) is null: mvInfo.color throws, caught
            UNCHANGED <<game, moveHistory>>
       ELSE LET mvInfo == CHOOSE m \in MovesWithSan(game, bestSan) : TRUE
            IN  /\ game' = GameMove(game, mvInfo)
                /\ moveHistory' = Append(moveHistory,
                                         [color |-> mvInfo.color, san |-> bestSan,
                                          captured |-> mvInfo.captured])
    /\ UNCHANGED <<pending, gameMode, difficulty, screen, moveCount, chart,
                   squareMistakes, evalCache, evalInFlight, commitInFlight, evalSent, diffChanges>>

\* a failed reply that takes the last move and its record back
EngineNoneRollsBack(i) ==
    /\ i \in DOMAIN engineInFlight
    /\ engineInFlight' = RemoveAt(engineInFlight, i)
    /\ lastOp' = Op("engineNone")
    /\ game' = GameUndo(game)
    /\ moveHistory' = SubSeq(moveHistory, 1, Len(moveHistory) - 1)
    /\ UNCHANGED <<pending, gameMode, difficulty, screen, moveCount, chart,
                   squareMistakes, evalCache, evalInFlight,
                   commitInFlight, evalSent, diffChanges>>

\* no bestSan in the answer, or the request failed: nothing is applied
EngineResponseNone(i) ==
    /\ i \in DOMAIN engineInFlight
    /\ engineInFlight' = RemoveAt(engineInFlight, i)
    /\ lastOp' = Op("engineNone")
    /\ UNCHANGED <<game, pending, gameMode, difficulty, screen, moveCount, chart,
                   squareMistakes, evalCache, moveHistory, evalInFlight,
                   commitInFlight, evalSent, diffChanges>>

(* ------------------------------- Next ---------------------------------- *)

Sans == {"e4", "d4", "d5", "exd5"}

Next ==
    \/ \E d \in Difficulties : DiffClick(d)
    \/ StartVsComputer
    \/ StartHumanLocal
    \/ BackClick
    \/ ResetClick
    \/ CancelClick
    \/ \E s \in Sources, t \in Targets : OnDropIllegal(s, t)
    \/ \E s \in Sources, t \in Targets : OnDropHit(s, t)
    \/ \E s \in Sources, t \in Targets : OnDropMiss(s, t)
    \/ \E i \in 1..MaxInFlight : EvalResponseOk(i)
    \/ \E i \in 1..MaxInFlight : EvalResponseFail(i)
    \/ ConfirmNoop
    \/ ConfirmClick
    \/ \E i \in 1..MaxInFlight : CommitResponseOk(i)
    \/ \E i \in 1..MaxInFlight : CommitResponseFail(i)
    \/ \E i \in 1..MaxInFlight, san \in Sans : EngineResponseMove(i, san)
    \/ \E i \in 1..MaxInFlight : EngineResponseNone(i)

Spec == Init /\ [][Next]_vars

(* ------------------- the band classifier on its own -------------------- *)

\* the scores addEvalPoint is called with
CpInputs == -MaxCp .. MaxCp

\* resetEvalChart(): moveCount = 0, labels and data emptied
resetEvalChart ==
    /\ moveCount' = 0
    /\ chart' = <<>>

\* addEvalPoint(cp) called with any score of the range
AddEvalPointCall(cp) ==
    /\ Len(chart) < MaxPoints
    /\ addEvalPoint(cp)
    /\ lastOp' = Op("addEvalPoint")
    /\ UNCHANGED <<game, pending, gameMode, difficulty, screen, squareMistakes,
                   evalCache, moveHistory, evalInFlight, commitInFlight,
                   engineInFlight, evalSent, diffChanges>>

ResetEvalChartCall ==
    /\ chart # <<>>
    /\ resetEvalChart
    /\ lastOp' = Op("resetEvalChart")
    /\ UNCHANGED <<game, pending, gameMode, difficulty, screen, squareMistakes,
                   evalCache, moveHistory, evalInFlight, commitInFlight,
                   engineInFlight, evalSent, diffChanges>>

NextBand ==
    \/ \E cp \in CpInputs : AddEvalPointCall(cp)
    \/ ResetEvalChartCall

SpecBand == Init /\ [][NextBand]_vars


(* ------------------------------ claims --------------------------------- *)

Authoritative == <<game, moveHistory, moveCount, chart, squareMistakes>>

\* the step just taken belongs to a propose gesture: onDrop up to its return or
\* suspension, or its continuation after the evaluation response or failure
ProposeStep ==
    lastOp'.op \in {"dropIllegal", "dropHit", "dropMiss", "evalOk", "evalFail"}

\* C1: no step of a propose gesture (the drop up to its suspension or return,
\* and the continuation after the evaluation response or failure) changes the
\* position, the Move Ledger, the Trend Series or the heatmap counts; the
\* position changes only in a commit response, an engine reply or a reset
\* (Reset, Back, Start).
C1_ProposeFrame ==
    [][ /\ ProposeStep => UNCHANGED Authoritative
        /\ game' # game =>
              lastOp'.op \in {"commitOk", "engineMove", "reset", "back", "start"} ]_vars

\* an evaluation response has set a proposal while the ledger holds moves
C1_Witness ==
    /\ lastOp.op = "evalOk"
    /\ pending # Null
    /\ moveHistory # <<>>
    /\ chart # <<>>

\* C2: every successful commit response appends exactly one MoveRecord, sets
\* the position to the one the commit service returned and leaves no proposal.
C2_CommitAtomic ==
    [][ \A i \in 1..MaxInFlight :
          CommitResponseOk(i) =>
            /\ Len(moveHistory') = Len(moveHistory) + 1
            /\ game' = ServerMakeMove(commitInFlight[i].fen, commitInFlight[i].uci)
            /\ pending' = Null ]_vars

\* C3: the evaluation response of a gesture that a later gesture has
\* superseded is discarded: it leaves the proposal as it is.
C3_Supersession ==
    [][ \A i \in 1..MaxInFlight :
          (EvalResponseOk(i) /\ evalInFlight[i].superseded) => pending' = pending ]_vars

\* C4: an evaluation response that arrives after cancel was clicked or a
\* confirm completed creates no proposal.
C4_StaleDiscard ==
    [][ \A i \in 1..MaxInFlight :
          (EvalResponseOk(i) /\ evalInFlight[i].invalidated) => pending' = pending ]_vars

\* C5: for every key (position, move code, depth) at most one evaluation
\* request is ever issued (the results agree because the service is pure).
C5_CacheDedup ==
    \A key \in DOMAIN evalSent : evalSent[key] = 1

\* C6: the Move Ledger is as long as the number of plies of the position.
C6_LedgerMatchesPlies ==
    Len(moveHistory) = Len(game)

\* C7: after Reset, Back or Start there is no proposal.
C7_ResetClearsPending ==
    lastOp.op \in {"reset", "back", "start"} => pending = Null

\* C8: right after Reset the Move Ledger and the Trend Series are empty, the
\* ply counter is 0, the heatmap has no counts and the position is the start.
C8_ResetState ==
    lastOp.op = "reset" =>
        /\ moveHistory = <<>>
        /\ chart = <<>>
        /\ moveCount = 0
        /\ squareMistakes = EmptyMap
        /\ game = StartPos

\* Reset was clicked with a commit and an engine reply in the ledger
C8_Witness ==
    /\ lastOp.op = "reset"
    /\ lastOp.preLen >= 2

\* C9: after an illegal drop or a failed evaluation there is no proposal.
C9_FailedProposeIdle ==
    lastOp.op \in {"dropIllegal", "evalFail"} => pending = Null

\* C10: a failed commit request appends no MoveRecord, leaves the position,
\* the Trend Series and the heatmap counts as they are and clears the proposal.
C10_CommitFailure ==
    [][ \A i \in 1..MaxInFlight :
          CommitResponseFail(i) => (pending' = Null /\ UNCHANGED Authoritative) ]_vars

\* a commit has failed in a game that already has moves and heatmap counts
C10_Witness ==
    /\ lastOp.op = "commitFail"
    /\ moveHistory # <<>>
    /\ squareMistakes # EmptyMap
    /\ pending = Null

\* C11: a click on Play move is accepted only when no commit request for the
\* proposal on show is outstanding, so one proposal is sent at most once.
C11_NoDoubleSubmission ==
    [][ lastOp'.op = "confirm" =>
          \A i \in DOMAIN commitInFlight : ~commitInFlight[i].current ]_vars

\* C12: in computer mode, while a best-move request is outstanding, no
\* proposal is created and no human commit is applied; an engine reply is
\* applied to the position it was asked about, directly after the human move.
C12_EngineTurnExclusive ==
    [][ /\ (gameMode = "computer" /\ engineInFlight # <<>>) =>
              /\ lastOp'.op \notin {"dropHit", "evalOk"}
              /\ ~(lastOp'.op = "commitOk" /\ moveHistory' # moveHistory)
        /\ (lastOp'.op = "engineMove" /\ moveHistory' # moveHistory) =>
              \E i \in DOMAIN engineInFlight : engineInFlight[i].fen = game ]_vars

\* C13 (as the code has it): the comparisons are strict, so a score exactly
\* on a boundary falls into the band below it: 150 -> 1, 50 -> 0, -50 -> -1,
\* -150 -> -2; next to the boundaries 151 -> 2, 51 -> 1, -49 -> 0, -51 -> -1,
\* -149 -> -1.
C13_BoundaryBelow ==
    \A k \in DOMAIN chart :
        /\ chart[k].cp = 150 => chart[k].y = 1
        /\ chart[k].cp = 151 => chart[k].y = 2
        /\ chart[k].cp = 50 => chart[k].y = 0
        /\ chart[k].cp = 51 => chart[k].y = 1
        /\ chart[k].cp = -49 => chart[k].y = 0
        /\ chart[k].cp = -50 => chart[k].y = -1
        /\ chart[k].cp = -51 => chart[k].y = -1
        /\ chart[k].cp = -149 => chart[k].y = -1
        /\ chart[k].cp = -150 => chart[k].y = -2

\* the score -50, on the boundary between the bands 0 and -1, has been classified
C13_Witness ==
    /\ lastOp.op = "addEvalPoint"
    /\ \E k \in DOMAIN chart : chart[k].cp = -50 /\ chart[k].y = -1

\* C13 (as stated): classify(150) = 1, classify(151) = 2, classify(-50) = 0,
\* classify(-51) = -1, and each boundary score 150, 50, -50, -150 falls into
\* the band of lower magnitude: 1, 0, 0, -1.
C13_BoundaryLowerMagnitude ==
    \A k \in DOMAIN chart :
        /\ chart[k].cp = 150 => chart[k].y = 1
        /\ chart[k].cp = 151 => chart[k].y = 2
        /\ chart[k].cp = 50 => chart[k].y = 0
        /\ chart[k].cp = -50 => chart[k].y = 0
        /\ chart[k].cp = -51 => chart[k].y = -1
        /\ chart[k].cp = -150 => chart[k].y = -1

\* C14: the classifier is total and monotone: every score gets an index in
\* -2 .. 2, and a score at most another gets an index at most the other's.
C14_TotalMonotone ==
    \A k \in DOMAIN chart :
        /\ chart[k].y \in -2 .. 2
        /\ \A b \in CpInputs :
              /\ chart[k].cp <= b => chart[k].y <= evalBandInfo(b)
              /\ b <= chart[k].cp => evalBandInfo(b) <= chart[k].y

\* a score between two boundaries has been classified into the band 1
C14_Witness ==
    /\ lastOp.op = "addEvalPoint"
    /\ \E k \in DOMAIN chart : chart[k].cp = 100 /\ chart[k].y = 1

\* C15 (as the code has it): the Trend Series gets exactly one point per
\* successful human commit since the last reset and none for an engine reply;
\* the k-th point carries the label k and the band index of its score.
C15_TrendPerHumanCommit ==
    [][ /\ (lastOp'.op = "commitOk" /\ moveHistory' # moveHistory) =>
              /\ Len(chart') = Len(chart) + 1
              /\ chart'[Len(chart')].cp = pending[1].eval.userCp
        /\ (lastOp'.op \in {"start", "back", "reset"}) => chart' = <<>>
        /\ (\/ lastOp'.op \notin {"commitOk", "start", "back", "reset"}
            \/ (lastOp'.op = "commitOk" /\ moveHistory' = moveHistory)) =>
              chart' = chart
        /\ \A k \in DOMAIN chart' :
              /\ chart'[k].label = k
              /\ chart'[k].y = evalBandInfo(chart'[k].cp) ]_vars

\* an engine reply has been applied after a human commit: two records, one point
C15_Witness ==
    /\ lastOp.op = "engineMove"
    /\ Len(moveHistory) = 2
    /\ Len(chart) = 1
    /\ chart[1].label = 1

\* C15 (as stated): every ply applied, by a human commit or by an engine
\* reply, adds one point to the Trend Series.
C15_TrendPerPly ==
    [][ Len(moveHistory') = Len(moveHistory) + 1 => Len(chart') = Len(chart) + 1 ]_vars

\* C16: the count of a square is the number of successful confirms since the
\* last reset whose proposal had that destination and a bucket of exactly
\* "Cool", "Cold" or "Freezing": such a confirm adds one to its destination,
\* a confirm with another bucket changes nothing, a reset empties the counts
\* and nothing else touches them; a square with the largest count has
\* intensity 1.
C16_HeatmapCounts ==
    [][ /\ \A i \in 1..MaxInFlight :
              CommitResponseOk(i) =>
                  LET p == commitInFlight[i].proposal
                      old == IF p.to \in DOMAIN squareMistakes
                             THEN squareMistakes[p.to] ELSE 0
                  IN  IF p.eval.bucket \in {"Cool", "Cold", "Freezing"}
                      THEN squareMistakes' = Put(squareMistakes, p.to, old + 1)
                      ELSE squareMistakes' = squareMistakes
        /\ lastOp'.op \in {"start", "back", "reset"} => squareMistakes' = EmptyMap
        /\ lastOp'.op \notin {"commitOk", "start", "back", "reset"} =>
              squareMistakes' = squareMistakes
        /\ \A sq \in DOMAIN squareMistakes' :
              LET r == intensity(squareMistakes', sq)
              IN  /\ 0 < r.num /\ r.num <= r.den
                  /\ (\A other \in DOMAIN squareMistakes' :
                          squareMistakes'[other] <= squareMistakes'[sq])
                     => r.num = r.den ]_vars

\* C17: a cache entry, once inserted, is never removed and never changes its
\* value, whatever the operation; a cache hit hands out the stored value.
C17_CacheImmutable ==
    [][ /\ \A k \in DOMAIN evalCache :
              k \in DOMAIN evalCache' /\ evalCache'[k] = evalCache[k]
        /\ lastOp'.op = "dropHit" =>
              LET key == CacheKey(game, pending'[1].uci, evalDepth(difficulty))
              IN  key \in DOMAIN evalCache /\ pending'[1].eval = evalCache[key] ]_vars

\* a key was requested twice, both requests have resolved, and a later
\* propose for it is served from the cache
C17_Witness ==
    /\ lastOp.op = "dropHit"
    /\ evalInFlight = <<>>
    /\ \E k \in DOMAIN evalCache :
          /\ k \in DOMAIN evalSent /\ evalSent[k] = 2
          /\ pending # Null /\ pending[1].eval = evalCache[k]

\* C18: the depths are (8, 10) for easy, (12, 16) for medium, (18, 22) for
\* hard and (12, 18) for any other value; as long as the user has not changed
\* the level it is Medium, so every request sent until then, the first one of
\* a session included, is at depth 12 (evaluation) or 16 (best move).
C18_DifficultyPolicy ==
    /\ evalDepth("easy") = 8 /\ bestMoveDepth("easy") = 10
    /\ evalDepth("medium") = 12 /\ bestMoveDepth("medium") = 16
    /\ evalDepth("hard") = 18 /\ bestMoveDepth("hard") = 22
    /\ evalDepth("other") = 12 /\ bestMoveDepth("other") = 18
    /\ diffChanges = 0 =>
          /\ \A k \in DOMAIN evalSent : k[3] = 12
          /\ \A i \in DOMAIN engineInFlight : engineInFlight[i].depth = 16

\* C19: when the best-move request fails, answers without a move, or answers
\* with a move that cannot be applied, the Move Ledger, the position, the
\* Trend Series, the heatmap counts and the proposal are left as they are:
\* the human commit before it is not rolled back.
C19_EngineFailureFrame ==
    [][ (\/ lastOp'.op = "engineNone"
         \/ (lastOp'.op = "engineMove" /\ moveHistory' = moveHistory)) =>
            UNCHANGED <<Authoritative, pending>> ]_vars

\* in a vs-computer game the reply to a committed human move has failed:
\* the record, the move on the board and the trend point are still there
C19_Witness ==
    /\ lastOp.op = "engineNone"
    /\ gameMode = "computer"
    /\ Len(moveHistory) = 1
    /\ game # StartPos
    /\ Len(chart) = 1
    /\ pending = Null

\* C20: the MoveRecord a successful confirm appends carries the colour, the
\* notation and the captured piece of the very proposal whose move code was
\* sent in that commit request, and the trend point and the heatmap
\* increment use that proposal's evaluation, whatever happens while the
\* request is outstanding.
C20_RecordOfSentProposal ==
    [][ \A i \in 1..MaxInFlight :
          (CommitResponseOk(i) /\ moveHistory' # moveHistory) =>
              LET p == commitInFlight[i].proposal
                  old == IF p.to \in DOMAIN squareMistakes
                         THEN squareMistakes[p.to] ELSE 0
              IN  /\ commitInFlight[i].uci = p.uci
                  /\ moveHistory'[Len(moveHistory')] =
                         [color |-> p.color, san |-> p.san, captured |-> p.captured]
                  /\ chart'[Len(chart')].cp = p.eval.userCp
                  /\ squareMistakes' =
                         IF p.eval.bucket \in {"Cool", "Cold", "Freezing"}
                         THEN Put(squareMistakes, p.to, old + 1)
                         ELSE squareMistakes ]_vars

\* C21: a proposal on show was tried and evaluated on the position that is
\* authoritative now, and every commit request sends the move code together
\* with the position its proposal was made on.
C21_ProposalOfCurrentPosition ==
    /\ pending # Null => pending[1].fen = game
    /\ \A i \in DOMAIN commitInFlight :
          commitInFlight[i].fen = commitInFlight[i].proposal.fen

\* C22: cancel only clears the proposal: afterwards there is no proposal, the
\* position, the Move Ledger, the Trend Series, the heatmap counts and the
\* evaluation cache are unchanged, and no request has been sent: the
\* requests outstanding are the ones that were outstanding before.
C22_CancelFrame ==
    [][ lastOp'.op = "cancel" =>
          /\ pending' = Null
          /\ UNCHANGED <<Authoritative, evalCache, evalSent, engineInFlight>>
          /\ Len(evalInFlight') = Len(evalInFlight)
          /\ \A i \in DOMAIN evalInFlight : evalInFlight'[i].key = evalInFlight[i].key
          /\ Len(commitInFlight') = Len(commitInFlight)
          /\ \A i \in DOMAIN commitInFlight :
                /\ commitInFlight'[i].fen = commitInFlight[i].fen
                /\ commitInFlight'[i].uci = commitInFlight[i].uci ]_vars

\* cancel was clicked in a game with a move played, a record, a trend point
\* and a cached evaluation: all are still there and no proposal is on show
C22_Witness ==
    /\ lastOp.op = "cancel"
    /\ pending = Null
    /\ game # StartPos
    /\ moveHistory # <<>>
    /\ chart # <<>>
    /\ evalCache # EmptyMap

====
